---- MODULE Spec2Model ----
(***************************************************************************)
(* Model of the iris viewport engine (src/src/viewport): the controller    *)
(* Viewport (mod.rs), the frame renderer IrisRenderer (renderer.rs), the   *)
(* Camera (camera.rs) and the GPU context acquisition (gpu.rs).            *)
(*                                                                         *)
(* The cooperative (glib main context) thread runs three kinds of          *)
(* callbacks, one at a time: the initialization task, the tick callback    *)
(* and the load-completion tasks.  Decode workers are separate OS threads  *)
(* that only send on their own oneshot channel.                            *)
(*                                                                         *)
(* Specifications: Spec and FairSpec (the controller; the tick callback    *)
(* is two steps, up to its blocking wait and from it),                     *)
(* UnitSpec (the renderer and the camera called directly), SizeSpec        *)
(* (create_targets at large sizes), AppSpec (AppState of main.rs under the *)
(* window's handlers) and NavSpec (AppState's operations called directly). *)
(*                                                                         *)
(* f32 values are modelled as fractions <<n, d>> and every f32 operation   *)
(* rounds to 24 significant bits as the hardware does.                     *)
(***************************************************************************)
EXTENDS Integers, Sequences, FiniteSets, TLC

VARIABLES
    renderer,   \* Rc<RefCell<Option<IrisRenderer>>>: <<>> is None, <<r>> is Some(r)
    camera,     \* Rc<RefCell<Camera>>
    initTask,   \* the initialization future: "pending" or "finished" (returned or
                \* panicked)
    loads,      \* one entry per Viewport::load_image call, in issue order
    doneOrder,  \* ids of the load completions processed, in processing order
    paintable,  \* the Picture's paintable: <<>> or <<frame>> (last frame published)
    dead,       \* the process has panicked (a fatal error)
    ev,         \* what the last step did (observation record)
    calls,      \* the calls made directly on a renderer and a camera (UnitSpec)
    running,    \* the callback the cooperative thread is inside, and the borrow of
                \* the renderer slot it holds; inside a tick, what the tick has done
    app         \* main.rs: AppState (files, current_index) and the thumbnail strip

vars ==
    <<renderer, camera, initTask, loads, doneOrder, paintable, dead, ev, calls, running, app>>

(***************************************************************************)
(* Bounds and inputs                                                       *)
(***************************************************************************)
MaxLoads == 2

\* sizes the host reports for the widget (pic.width(), pic.height()): not yet
\* laid out, a width whose rows need no padding, one whose rows do, no height
HostSizes == {<<0, 0>>, <<64, 3>>, <<65, 3>>, <<65, 0>>}

\* files a load can name; Decode gives what image::open returns for each
Paths == {"A", "B", "bad"}

(***************************************************************************)
(* Arithmetic helpers.  An f32 value is written as a fraction <<n, d>>     *)
(* with d >= 0: a finite value has d a power of two and n odd or d = 1     *)
(* (so equal values are equal pairs), <<1, 0>> and <<-1, 0>> are the       *)
(* infinities and <<0, 0>> is NaN.  Every operation rounds its exact       *)
(* result to the nearest f32 (24 significant bits, ties to even); the      *)
(* values of the model stay far from the subnormal and the overflow range. *)
(***************************************************************************)
Max(a, b) == IF a >= b THEN a ELSE b

Abs(a) == IF a < 0 THEN 0 - a ELSE a

Sign(a) == IF a < 0 THEN 0 - 1 ELSE IF a = 0 THEN 0 ELSE 1

\* 2^k
Pow2[k \in Nat] == IF k = 0 THEN 1 ELSE 2 * Pow2[k - 1]

\* the value m * 2^x (m > 0) as a fraction
Dyadic[m \in Nat, x \in Int] ==
    IF m % 2 = 0 THEN Dyadic[m \div 2, x + 1]
    ELSE IF x >= 0 THEN <<m * Pow2[x], 1>>
    ELSE <<m, Pow2[0 - x]>>

\* long division of r / d (r < d) continuing the significand m by k more bits;
\* after the last bit the significand is rounded to nearest, ties to even, on
\* the remainder, and the value significand * 2^(e - 23) is returned
F32Bits[r \in Nat, d \in Nat, k \in Nat, m \in Nat, e \in Int] ==
    IF k = 0
    THEN Dyadic[IF 2 * r > d \/ (2 * r = d /\ m % 2 = 1) THEN m + 1 ELSE m, e - 23]
    ELSE IF 2 * r >= d THEN F32Bits[2 * r - d, d, k - 1, 2 * m + 1, e]
    ELSE F32Bits[2 * r, d, k - 1, 2 * m, e]

\* the f32 nearest to (n / d) * 2^e: n / d is scaled by a power of two into
\* [1, 2), which gives the leading bit and the exponent; 23 more bits follow
F32Round[n \in Nat, d \in Nat, e \in Int] ==
    IF n < d THEN F32Round[2 * n, d, e - 1]
    ELSE IF n \div 2 >= d THEN F32Round[n, 2 * d, e + 1]
    ELSE F32Bits[n - d, d, 23, 1, e]

\* the f32 nearest to n / d for n > 0 and d > 0
F32Quot(n, d) == F32Round[n, d, 0]

RNeg(p) == <<0 - p[1], p[2]>>

\* the f32 nearest to n / d for d >= 0
RNorm(n, d) ==
    IF d = 0 THEN <<Sign(n), 0>>
    ELSE IF n = 0 THEN <<0, 1>>
    ELSE IF n > 0 THEN F32Quot(n, d)
    ELSE RNeg(F32Quot(0 - n, d))

\* p + q
RAdd(p, q) ==
    IF p[2] = 0 /\ q[2] = 0 THEN (IF p = q THEN p ELSE <<0, 0>>)
    ELSE IF p[2] = 0 THEN p
    ELSE IF q[2] = 0 THEN q
    ELSE LET d == Max(p[2], q[2])
         IN RNorm(p[1] * (d \div p[2]) + q[1] * (d \div q[2]), d)

RSub(p, q) == RAdd(p, RNeg(q))

\* p * q
RMul(p, q) == RNorm(p[1] * q[1], p[2] * q[2])

\* 1.0 / p
RRecip(p) == IF p[1] < 0 THEN RNorm(0 - p[2], 0 - p[1]) ELSE RNorm(p[2], p[1])

RZero == <<0, 1>>

One == <<1, 1>>

\* `a as f32 / b as f32` for two unsigned integers below 2^24
Frac(a, b) == RNorm(a, b)

\* `aspect > 1.0`
FracGt1(q) == q[1] > q[2]

\* `1.0 / aspect`
FracInv(q) == RRecip(q)

(***************************************************************************)
(* Decoder: image::open(&path)                                             *)
(***************************************************************************)
Decode(path) ==
    CASE path = "A" -> [ok |-> TRUE, src |-> "A", w |-> 4, h |-> 2]
      [] path = "B" -> [ok |-> TRUE, src |-> "B", w |-> 2, h |-> 3]
      [] OTHER      -> [ok |-> FALSE, src |-> path, w |-> 0, h |-> 0]

(***************************************************************************)
(* Camera                                                                  *)
(***************************************************************************)
CameraNew == [position |-> <<0, 0>>, zoom |-> 1, aspect_ratio |-> One]

\* set_viewport_size with the operands of the division exchanged
SetViewportSizeSwapped(cam, width, height) ==
    IF height > 0
    THEN [cam EXCEPT !.aspect_ratio = Frac(height, width)]
    ELSE cam

SetViewportSize(cam, width, height) ==
    IF height > 0
    THEN [cam EXCEPT !.aspect_ratio = Frac(width, height)]
    ELSE cam

(***************************************************************************)
(* The view-projection matrix, with f32 entries.  The divisions produce    *)
(* infinities and NaN when aspect_ratio is 0.                              *)
(***************************************************************************)
\* a 4x4 matrix given by its rows; m[i][j] is row i, column j
MatMul(a, b) ==
    [i \in 1..4 |-> [j \in 1..4 |->
        RAdd(RAdd(RAdd(RMul(a[i][1], b[1][j]), RMul(a[i][2], b[2][j])),
                  RMul(a[i][3], b[3][j])),
             RMul(a[i][4], b[4][j]))]]

\* the matrix applied to the column vector v
MatApply(m, v) ==
    [i \in 1..4 |->
        RAdd(RAdd(RAdd(RMul(m[i][1], v[1]), RMul(m[i][2], v[2])),
                  RMul(m[i][3], v[3])),
             RMul(m[i][4], v[4]))]

\* an orthographic projection whose x and y scales are not doubled
OrthographicRhHalf(left, right, bottom, top, near, far) ==
    LET rcp_width == RRecip(RSub(right, left))
        rcp_height == RRecip(RSub(top, bottom))
        r == RRecip(RSub(near, far))
    IN << <<rcp_width, <<0, 1>>, <<0, 1>>, RMul(RNeg(RAdd(left, right)), rcp_width)>>,
          <<<<0, 1>>, rcp_height, <<0, 1>>, RMul(RNeg(RAdd(top, bottom)), rcp_height)>>,
          <<<<0, 1>>, <<0, 1>>, r, RMul(r, near)>>,
          <<<<0, 1>>, <<0, 1>>, <<0, 1>>, <<1, 1>>>> >>

\* glam's Mat4::orthographic_rh(left, right, bottom, top, near, far)
OrthographicRh(left, right, bottom, top, near, far) ==
    LET rcp_width == RRecip(RSub(right, left))
        rcp_height == RRecip(RSub(top, bottom))
        r == RRecip(RSub(near, far))
    IN << <<RAdd(rcp_width, rcp_width), RZero, RZero,
            RMul(RNeg(RAdd(left, right)), rcp_width)>>,
          <<RZero, RAdd(rcp_height, rcp_height), RZero,
            RMul(RNeg(RAdd(top, bottom)), rcp_height)>>,
          <<RZero, RZero, r, RMul(r, near)>>,
          <<RZero, RZero, RZero, One>> >>

\* glam's Mat4::from_scale(Vec3::new(x, y, z))
FromScale(x, y, z) ==
    << <<x, RZero, RZero, RZero>>,
       <<RZero, y, RZero, RZero>>,
       <<RZero, RZero, z, RZero>>,
       <<RZero, RZero, RZero, One>> >>

\* glam's Mat4::from_translation(Vec3::new(x, y, z))
FromTranslation(x, y, z) ==
    << <<One, RZero, RZero, x>>,
       <<RZero, One, RZero, y>>,
       <<RZero, RZero, One, z>>,
       <<RZero, RZero, RZero, One>> >>

\* Camera::build_view_projection_matrix: projection * (scale * translation)
BuildViewProjectionMatrix(cam) ==
    LET a == cam.aspect_ratio
        zoom == <<cam.zoom, 1>>
        projection == OrthographicRh(RNeg(a), a, RNeg(One), One, RNeg(One), One)
        view == MatMul(FromScale(zoom, zoom, One),
                       FromTranslation(<<0 - cam.position[1], 1>>,
                                       <<0 - cam.position[2], 1>>, RZero))
    IN MatMul(projection, view)

(***************************************************************************)
(* IrisRenderer                                                            *)
(***************************************************************************)
Align == 256

\* create_targets with the padding computed without its final `% align`
CreateTargetsAlwaysPads(width, height) ==
    LET unpadded == width * 4
        padding == Align - (unpadded % Align)
        padded == unpadded + padding
    IN [texture |-> <<width, height>>,
        buffer |-> [size |-> padded * height, mapped |-> FALSE],
        padded |-> padded]

\* create_targets: the output texture, the readback buffer and the row stride
CreateTargets(width, height) ==
    LET unpadded == width * 4
        padding == (Align - (unpadded % Align)) % Align
        padded == unpadded + padding
    IN [texture |-> <<width, height>>,
        buffer |-> [size |-> padded * height, mapped |-> FALSE],
        padded |-> padded]

\* the 1x1 default texture bound by IrisRenderer::new
DefaultTexture == [src |-> "default", w |-> 1, h |-> 1]

IrisRendererNew(width, height) ==
    LET t == CreateTargets(width, height)
    IN [width |-> width,
        height |-> height,
        padded_bytes_per_row |-> t.padded,
        output_texture |-> t.texture,
        output_buffer |-> t.buffer,
        bind_group |-> DefaultTexture,
        image_dims |-> <<1, 1>>]

\* load_image that records the dimensions and leaves the old bind group bound
RendererLoadImageDimsOnly(r, img) ==
    [r EXCEPT !.image_dims = <<img.w, img.h>>]

\* load_image that also recreates the output target at the image's size
RendererLoadImageFitsTarget(r, img) ==
    [r EXCEPT !.image_dims = <<img.w, img.h>>,
              !.bind_group = [src |-> img.src, w |-> img.w, h |-> img.h],
              !.width = img.w,
              !.height = img.h,
              !.output_texture = <<img.w, img.h>>,
              !.output_buffer = [size |-> 256 * img.h, mapped |-> FALSE]]

\* IrisRenderer::load_image: record the dimensions, upload a new texture and
\* replace the bind group by one that references it
RendererLoadImage(r, img) ==
    [r EXCEPT !.image_dims = <<img.w, img.h>>,
              !.bind_group = [src |-> img.src, w |-> img.w, h |-> img.h]]

\* resize that rebuilds the whole renderer, default texture included
RendererResizeRebuild(r, width, height) ==
    IF width > 0 /\ height > 0 /\ (width # r.width \/ height # r.height)
    THEN IrisRendererNew(width, height)
    ELSE r

\* resize without the comparison with the current size
ResizeAllocatesAlways(r, width, height) ==
    width > 0 /\ height > 0

\* resize that requires both dimensions to differ
ResizeAllocatesBothDiffer(r, width, height) ==
    width > 0 /\ height > 0 /\ (width # r.width /\ height # r.height)

\* resize without the check for zero dimensions
ResizeAllocatesNoZeroCheck(r, width, height) ==
    width # r.width \/ height # r.height

\* the condition under which resize recreates the output target
ResizeAllocates(r, width, height) ==
    width > 0 /\ height > 0 /\ (width # r.width \/ height # r.height)

RendererResize(r, width, height) ==
    IF ResizeAllocates(r, width, height)
    THEN LET t == CreateTargets(width, height)
         IN [r EXCEPT !.width = width,
                      !.height = height,
                      !.output_texture = t.texture,
                      !.output_buffer = t.buffer,
                      !.padded_bytes_per_row = t.padded]
    ELSE r

\* image_scale with the comparison inverted
ImageScaleInverted(dims) ==
    LET aspect == Frac(dims[1], dims[2])
    IN IF aspect[1] < aspect[2] THEN <<One, FracInv(aspect)>> ELSE <<aspect, One>>

\* the image_scale uniform computed by render from image_dims
ImageScale(dims) ==
    LET aspect == Frac(dims[1], dims[2])
    IN IF FracGt1(aspect) THEN <<One, FracInv(aspect)>> ELSE <<aspect, One>>

\* IrisRenderer::render: what one render pass draws and copies to the readback
\* buffer; the renderer's fields are left as they are
RenderOutput(r, cam) ==
    [dims |-> r.image_dims,
     scale |-> ImageScale(r.image_dims),
     tex |-> r.bind_group,
     aspect |-> cam.aspect_ratio,
     width |-> r.width,
     height |-> r.height,
     stride |-> r.padded_bytes_per_row,
     buffer_mapped |-> r.output_buffer.mapped]

(***************************************************************************)
(* Viewport: the controller                                                *)
(***************************************************************************)
\* the observation record of a step that did nothing observable
NoEvent ==
    [op |-> "none", id |-> 0, host |-> <<0, 0>>, had |-> FALSE, prev |-> <<>>,
     needs |-> FALSE, resized |-> FALSE, camset |-> FALSE, renders |-> 0,
     maps |-> 0, publishes |-> 0, installed |-> FALSE, out |-> <<>>,
     steps |-> <<>>, realloc |-> FALSE]

\* AppState::new, with no thumbnail buttons; start and nexts count the next calls
\* made in a row (start is the index before the first of them)
AppStateNew ==
    [files |-> <<>>, current_index |-> 0, thumbs |-> <<>>, start |-> 0, nexts |-> 0]

\* the cooperative thread is between callbacks and the slot's RefCell is not borrowed
Idle == [task |-> "idle", slot |-> "free", tick |-> <<>>]

\* the texture the slot's bind group references: <<>> for an empty slot
BoundTexture(slot) == IF slot = <<>> THEN <<>> ELSE <<slot[1].bind_group>>

Init ==
    /\ renderer = <<>>
    /\ camera = CameraNew
    /\ initTask = "pending"
    /\ loads = <<>>
    /\ doneOrder = <<>>
    /\ paintable = <<>>
    /\ dead = FALSE
    /\ ev = NoEvent
    /\ calls = <<>>
    /\ running = Idle
    /\ app = AppStateNew

\* the calls the initialization task makes: GpuContext::new panics (expect) when
\* no adapter or no device is obtained
InitSteps(gpuOk) ==
    IF gpuOk THEN <<"GpuContext::new", "IrisRenderer::new", "fill_slot">>
             ELSE <<"GpuContext::new", "panic">>

\* an initialization that falls back to a software device when acquisition fails
InitCompleteFallback(gpuOk, aborts) ==
    /\ ~dead
    /\ initTask = "pending"
    /\ initTask' = "finished"
    /\ renderer' = <<IrisRendererNew(1, 1)>>
    /\ dead' = FALSE
    /\ ev' = [NoEvent EXCEPT !.op = "init", !.had = (renderer # <<>>),
                             !.steps = InitSteps(gpuOk)]
    /\ UNCHANGED <<camera, loads, doneOrder, paintable, calls, running, app>>

\* the initialization task: GpuContext::new().await, IrisRenderer::new(gpu, 1, 1),
\* then the renderer slot is filled.  A missing adapter or device panics (expect)
\* inside the future given to glib::spawn_future_local, and the task is over.
\* What the panic does to the process is decided outside src/: the task runner
\* catches it for the JoinHandle, which is dropped, and the main loop goes on
\* (aborts = FALSE), or the build aborts on panic and the process ends there
\* (aborts = TRUE)
InitComplete(gpuOk, aborts) ==
    /\ ~dead
    /\ initTask = "pending"
    /\ initTask' = "finished"
    /\ IF gpuOk
       THEN /\ renderer' = <<IrisRendererNew(1, 1)>>
            /\ dead' = FALSE
       ELSE /\ renderer' = renderer
            /\ dead' = aborts
    /\ ev' = [NoEvent EXCEPT !.op = "init", !.had = (renderer # <<>>),
                             !.steps = InitSteps(gpuOk)]
    /\ UNCHANGED <<camera, loads, doneOrder, paintable, calls, running, app>>

\* load_image that cancels the loads still pending when a new one is issued
LoadImageCancelsPending(path) ==
    /\ ~dead
    /\ Len(loads) < MaxLoads
    /\ loads' = Append([i \in 1..Len(loads) |-> [loads[i] EXCEPT !.st = "done"]],
                       [path |-> path, st |-> "decoding", result |-> <<>>])
    /\ ev' = [NoEvent EXCEPT !.op = "load", !.id = Len(loads) + 1, !.had = (renderer # <<>>)]
    /\ UNCHANGED <<renderer, camera, initTask, doneOrder, paintable, dead, calls, running,
                   app>>

\* Viewport::load_image, the synchronous part: a channel, a decode thread and a
\* local task awaiting the channel are created
LoadImage(path) ==
    /\ ~dead
    /\ Len(loads) < MaxLoads
    /\ loads' = Append(loads, [path |-> path, st |-> "decoding", result |-> <<>>])
    /\ ev' = [NoEvent EXCEPT !.op = "load", !.id = Len(loads) + 1, !.had = (renderer # <<>>)]
    /\ UNCHANGED <<renderer, camera, initTask, doneOrder, paintable, dead, calls, running,
                   app>>

\* a decode thread that uploads its image itself instead of only sending it
DecodeWorkerUploads(i) ==
    /\ ~dead
    /\ i \in 1..Len(loads)
    /\ loads[i].st = "decoding"
    /\ loads' = [loads EXCEPT ![i] = [path |-> loads[i].path, st |-> "sent",
                                      result |-> <<Decode(loads[i].path)>>]]
    /\ renderer' = IF renderer # <<>> /\ Decode(loads[i].path).ok
                   THEN <<RendererLoadImage(renderer[1], Decode(loads[i].path))>>
                   ELSE renderer
    /\ ev' = [NoEvent EXCEPT !.op = "decode", !.id = i, !.had = (renderer # <<>>)]
    /\ UNCHANGED <<camera, initTask, doneOrder, paintable, dead, calls, running, app>>

\* the decode thread of load i: image::open, then one send on its channel
DecodeWorker(i) ==
    /\ ~dead
    /\ i \in 1..Len(loads)
    /\ loads[i].st = "decoding"
    /\ loads' = [loads EXCEPT ![i] = [path |-> loads[i].path, st |-> "sent",
                                      result |-> <<Decode(loads[i].path)>>]]
    /\ ev' = [NoEvent EXCEPT !.op = "decode", !.id = i, !.had = (renderer # <<>>)]
    /\ UNCHANGED <<renderer, camera, initTask, doneOrder, paintable, dead, calls, running,
                   app>>

\* a completion task that falls back to the default texture on a decode error
CompletionInstallClearsOnError(slot, res) ==
    IF res.ok
    THEN IF slot # <<>> THEN <<RendererLoadImage(slot[1], res)>> ELSE slot
    ELSE IF slot # <<>>
         THEN <<[slot[1] EXCEPT !.image_dims = <<1, 1>>, !.bind_group = DefaultTexture]>>
         ELSE slot

\* the renderer slot after the completion task has handled a received result
CompletionInstall(slot, res) ==
    IF res.ok
    THEN IF slot # <<>> THEN <<RendererLoadImage(slot[1], res)>> ELSE slot
    ELSE slot

\* a completion task that carries a request token and drops every completion but
\* the one of the latest load issued
LoadCompletionLatestOnly(i) ==
    /\ ~dead
    /\ i \in 1..Len(loads)
    /\ loads[i].st = "sent"
    /\ loads' = [loads EXCEPT ![i].st = "done"]
    /\ doneOrder' = Append(doneOrder, i)
    /\ renderer' = IF i = Len(loads)
                   THEN CompletionInstall(renderer, loads[i].result[1])
                   ELSE renderer
    /\ ev' = [NoEvent EXCEPT !.op = "completion", !.id = i, !.had = (renderer # <<>>),
                             !.prev = BoundTexture(renderer),
                             !.installed = (renderer' # renderer)]
    /\ UNCHANGED <<camera, initTask, paintable, dead, calls, running, app>>

\* the local task of load i, resumed with the received result
LoadCompletion(i) ==
    /\ ~dead
    /\ i \in 1..Len(loads)
    /\ loads[i].st = "sent"
    /\ loads' = [loads EXCEPT ![i].st = "done"]
    /\ doneOrder' = Append(doneOrder, i)
    /\ renderer' = CompletionInstall(renderer, loads[i].result[1])
    /\ ev' = [NoEvent EXCEPT !.op = "completion", !.id = i, !.had = (renderer # <<>>),
                             !.prev = BoundTexture(renderer),
                             !.installed = (renderer' # renderer)]
    /\ UNCHANGED <<camera, initTask, paintable, dead, calls, running, app>>

\* part A of the tick callback: the target size follows the widget size
TickTarget(w, h) == <<Max(w, 1), Max(h, 1)>>

TickNeedsResize(r, w, h) ==
    r.width # TickTarget(w, h)[1] \/ r.height # TickTarget(w, h)[2]

\* a tick that renders into the old target
TickResizeNever(r, w, h) == r

TickResize(r, w, h) ==
    IF TickNeedsResize(r, w, h)
    THEN RendererResize(r, TickTarget(w, h)[1], TickTarget(w, h)[2])
    ELSE r

\* a tick that resizes the target and leaves the camera as it was
TickCameraStale(r, cam, w, h) == cam

TickCamera(r, cam, w, h) ==
    IF TickNeedsResize(r, w, h)
    THEN SetViewportSize(cam, TickTarget(w, h)[1], TickTarget(w, h)[2])
    ELSE cam

\* part C of the tick callback: map_async and poll(Wait); the buffer is mapped
\* when the driver reports success
TickMap(r, mapOk) == [r EXCEPT !.output_buffer.mapped = mapOk]

\* a tick that returns with the readback buffer still mapped
TickUnmapForgotten(r) == r

\* part C of the tick callback: output_buffer.unmap()
TickUnmap(r) == [r EXCEPT !.output_buffer.mapped = FALSE]

\* a tick that skips the frame of a failed map and returns normally
TickPanicsNever(mapOk) == FALSE

\* part C of the tick callback: `if let Ok(_)` also matches the received Err of a
\* failed map, and get_mapped_range panics on the buffer that is not mapped
TickPanics(mapOk) == ~mapOk

\* the calls the tick callback makes before it blocks, in the order of its
\* statements
TickStepsToWait(needs) ==
    (IF needs THEN <<"resize", "set_viewport_size">> ELSE <<>>)
    \o <<"render", "map_async">>

\* the calls the whole tick callback makes, in the order of its statements
TickSteps(needs, mapOk) ==
    TickStepsToWait(needs)
    \o <<"poll">>
    \o (IF mapOk THEN <<"get_mapped_range", "set_paintable", "unmap">>
                 ELSE <<"get_mapped_range", "panic">>)

\* a MemoryTexture built with the unpadded row length as its stride
TickFrameUnpaddedStride(r, out) ==
    [width |-> r.width, height |-> r.height, stride |-> r.width * 4,
     bytes |-> out]

\* part C of the tick callback: the MemoryTexture built from the mapped buffer
TickFrame(r, out) ==
    [width |-> r.width, height |-> r.height, stride |-> r.padded_bytes_per_row,
     bytes |-> out]

\* a tick that updates the camera before it looks at the slot
TickAbsentSetsCamera(cam, pt, w, h) ==
    [slot |-> <<>>,
     camera |-> SetViewportSize(cam, TickTarget(w, h)[1], TickTarget(w, h)[2]),
     paintable |-> pt, dead |-> FALSE,
     ev |-> [NoEvent EXCEPT !.op = "tick", !.host = <<w, h>>]]

\* the tick callback with the slot empty: the body of `if let Some` is skipped
TickAbsent(cam, pt, w, h) ==
    [slot |-> <<>>, camera |-> cam, paintable |-> pt, dead |-> FALSE,
     ev |-> [NoEvent EXCEPT !.op = "tick", !.host = <<w, h>>]]

\* the tick callback with renderer r in the slot, up to its blocking wait:
\* resize and set_viewport_size when the size differs, render, map_async
TickBegin(r, cam, w, h) ==
    LET r1 == TickResize(r, w, h)
        c1 == TickCamera(r, cam, w, h)
    IN [slot |-> <<r1>>,
        camera |-> c1,
        ev |-> [NoEvent EXCEPT !.op = "tick_enter", !.host = <<w, h>>, !.had = TRUE,
                               !.prev = <<r.bind_group>>,
                               !.needs = TickNeedsResize(r, w, h),
                               !.resized = (r1 # r),
                               !.camset = (c1 # cam),
                               !.renders = 1, !.maps = 1,
                               !.out = <<RenderOutput(r1, c1)>>,
                               !.steps = TickStepsToWait(TickNeedsResize(r, w, h))]]

\* the tick callback from the return of its blocking wait to its own return:
\* the frame is read from the mapped buffer and published, and the buffer is
\* unmapped; a failed map makes get_mapped_range panic.  begun is the record
\* of the first part of the callback
TickEnd(r, pt, begun, mapOk) ==
    LET r2 == TickMap(r, mapOk)
    IN [slot |-> <<IF mapOk THEN TickUnmap(r2) ELSE r2>>,
        paintable |-> IF mapOk THEN <<TickFrame(r2, begun.out[1])>> ELSE pt,
        dead |-> TickPanics(mapOk),
        ev |-> [begun EXCEPT !.op = "tick",
                             !.publishes = IF mapOk THEN 1 ELSE 0,
                             !.steps = TickSteps(begun.needs, mapOk)]]

(***************************************************************************)
(* The steps of the program.  The initialization task, the completion      *)
(* tasks, load_image and the tick callback run on the cooperative thread,  *)
(* one at a time.  The tick callback borrows the renderer slot mutably at  *)
(* its first statement and, with a renderer in the slot, blocks in         *)
(* poll(Wait) and block_on after map_async: the main loop is not iterated  *)
(* during that wait, and the decode threads run.                           *)
(***************************************************************************)
\* a blocking wait that lets the main loop dispatch other callbacks meanwhile
MainThreadFreeAlways(run) == TRUE

\* the main loop dispatches a callback or resumes a local task only when no
\* callback is running: poll(Wait) and block_on do not iterate the main loop
MainThreadFree(run) == run.task = "idle"

\* RefCell::borrow_mut on a slot that is already borrowed: BorrowMutError, a panic
BorrowPanic(op) ==
    /\ ~dead
    /\ dead' = TRUE
    /\ ev' = [NoEvent EXCEPT !.op = op, !.had = (renderer # <<>>),
                             !.steps = <<"borrow_mut", "panic">>]
    /\ UNCHANGED <<renderer, camera, initTask, loads, doneOrder, paintable, calls, running,
                   app>>

\* the initialization task resumed by the main loop; it borrows the slot to fill it
StepInit(gpuOk, aborts) ==
    /\ MainThreadFree(running)
    /\ initTask = "pending"
    /\ IF gpuOk /\ running.slot = "mut"
       THEN BorrowPanic("init")
       ELSE InitComplete(gpuOk, aborts)

\* load_image is called from a callback of the main loop (main.rs)
StepLoadImage(path) ==
    /\ MainThreadFree(running)
    /\ LoadImage(path)

\* the completion task resumed by the main loop; it borrows the slot when the
\* decode succeeded
StepLoadCompletion(i) ==
    /\ MainThreadFree(running)
    /\ i \in 1..Len(loads)
    /\ loads[i].st = "sent"
    /\ IF loads[i].result[1].ok /\ running.slot = "mut"
       THEN BorrowPanic("completion")
       ELSE LoadCompletion(i)

\* a tick callback that waits for the decodes still running before it starts
TickEnterWaitsForDecodes(w, h) ==
    /\ ~dead
    /\ running.task = "idle"
    /\ \A i \in 1..Len(loads) : loads[i].st # "decoding"
    /\ IF renderer = <<>>
       THEN /\ ev' = [NoEvent EXCEPT !.op = "tick", !.host = <<w, h>>]
            /\ UNCHANGED <<renderer, camera, initTask, loads, doneOrder, paintable, dead,
                           calls, running, app>>
       ELSE LET t == TickBegin(renderer[1], camera, w, h)
            IN /\ renderer' = t.slot
               /\ camera' = t.camera
               /\ ev' = t.ev
               /\ running' = [task |-> "tick", slot |-> "mut", tick |-> <<t.ev>>]
               /\ UNCHANGED <<initTask, loads, doneOrder, paintable, dead, calls, app>>

\* the tick callback is called with the widget's size w, h: it borrows the slot
\* (`let mut r_ref = r_tick.borrow_mut()`); with the slot empty it returns at
\* once, with a renderer it runs up to its blocking wait
TickEnter(w, h) ==
    /\ ~dead
    /\ MainThreadFree(running)
    /\ IF running.slot = "mut"
       THEN BorrowPanic("tick")
       ELSE IF renderer = <<>>
       THEN LET t == TickAbsent(camera, paintable, w, h)
            IN /\ renderer' = t.slot
               /\ camera' = t.camera
               /\ paintable' = t.paintable
               /\ dead' = t.dead
               /\ ev' = t.ev
               /\ UNCHANGED <<initTask, loads, doneOrder, calls, running, app>>
       ELSE LET t == TickBegin(renderer[1], camera, w, h)
            IN /\ renderer' = t.slot
               /\ camera' = t.camera
               /\ ev' = t.ev
               /\ running' = [task |-> "tick", slot |-> "mut", tick |-> <<t.ev>>]
               /\ UNCHANGED <<initTask, loads, doneOrder, paintable, dead, calls, app>>

\* the blocking wait of the tick callback returns and the callback runs to its
\* return, where r_ref is dropped; mapOk is the outcome the driver reports for
\* the readback map
TickLeave(mapOk) ==
    /\ ~dead
    /\ running.task = "tick"
    /\ LET t == TickEnd(renderer[1], paintable, running.tick[1], mapOk)
       IN /\ renderer' = t.slot
          /\ paintable' = t.paintable
          /\ dead' = t.dead
          /\ ev' = t.ev
    /\ running' = Idle
    /\ UNCHANGED <<camera, initTask, loads, doneOrder, calls, app>>

Next ==
    \/ \E gpuOk \in BOOLEAN, aborts \in BOOLEAN : StepInit(gpuOk, aborts)
    \/ \E path \in Paths : StepLoadImage(path)
    \/ \E i \in 1..MaxLoads : DecodeWorker(i)
    \/ \E i \in 1..MaxLoads : StepLoadCompletion(i)
    \/ \E s \in HostSizes : TickEnter(s[1], s[2])
    \/ \E mapOk \in BOOLEAN : TickLeave(mapOk)

Spec == Init /\ [][Next]_vars

\* the scheduling the code relies on: a decode thread that can run does run and
\* sends, the blocking wait of a tick returns, and the main loop, which
\* dispatches a ready task before the next frame callback, resumes a completion
\* task whose channel holds a result
FairSpec ==
    /\ Init
    /\ [][Next]_vars
    /\ WF_vars(\E mapOk \in BOOLEAN : TickLeave(mapOk))
    /\ WF_vars(\E i \in 1..MaxLoads : DecodeWorker(i))
    /\ SF_vars(\E i \in 1..MaxLoads : StepLoadCompletion(i))

(***************************************************************************)
(* The renderer and the camera used directly, as a caller of their public  *)
(* functions (a test) uses them: IrisRenderer::new, resize, load_image and *)
(* render, Camera::new and set_viewport_size, with arguments of the        *)
(* caller's choice.                                                        *)
(***************************************************************************)
MaxCalls == 3

\* sizes given to IrisRenderer::new
UnitSizes == {<<1, 1>>, <<100, 100>>, <<100, 1>>}

\* arguments given to IrisRenderer::resize
ResizeArgs == {<<0, 0>>, <<0, 100>>, <<100, 0>>, <<100, 100>>, <<100, 150>>, <<200, 150>>}

\* arguments given to Camera::set_viewport_size
ViewportArgs == {<<0, 1>>, <<2, 0>>, <<2, 1>>, <<1, 2>>, <<8, 7>>}

\* dimensions of the images given to IrisRenderer::load_image
UnitImageDims == {<<1, 1>>, <<3, 1>>, <<1, 3>>, <<4, 2>>, <<2, 3>>, <<8, 7>>}

UnitInit ==
    /\ \E s \in UnitSizes :
          /\ renderer = <<IrisRendererNew(s[1], s[2])>>
          /\ calls = <<[op |-> "new", args |-> s, realloc |-> TRUE]>>
    /\ camera = CameraNew
    /\ initTask = "finished"
    /\ loads = <<>>
    /\ doneOrder = <<>>
    /\ paintable = <<>>
    /\ dead = FALSE
    /\ ev = NoEvent
    /\ running = Idle
    /\ app = AppStateNew

UnitResize(width, height) ==
    /\ Len(calls) <= MaxCalls
    /\ renderer' = <<RendererResize(renderer[1], width, height)>>
    /\ ev' = [NoEvent EXCEPT !.op = "resize", !.host = <<width, height>>, !.had = TRUE,
                             !.realloc = ResizeAllocates(renderer[1], width, height)]
    /\ calls' = Append(calls, [op |-> "resize", args |-> <<width, height>>,
                               realloc |-> ResizeAllocates(renderer[1], width, height)])
    /\ UNCHANGED <<camera, initTask, loads, doneOrder, paintable, dead, running, app>>

UnitSetViewportSize(width, height) ==
    /\ Len(calls) <= MaxCalls
    /\ camera' = SetViewportSize(camera, width, height)
    /\ ev' = [NoEvent EXCEPT !.op = "set_viewport_size", !.host = <<width, height>>,
                             !.had = TRUE]
    /\ calls' = Append(calls, [op |-> "set_viewport_size", args |-> <<width, height>>,
                               realloc |-> FALSE])
    /\ UNCHANGED <<renderer, initTask, loads, doneOrder, paintable, dead, running, app>>

UnitLoadImage(dims) ==
    /\ Len(calls) <= MaxCalls
    /\ renderer' = <<RendererLoadImage(renderer[1],
                        [ok |-> TRUE, src |-> "U", w |-> dims[1], h |-> dims[2]])>>
    /\ ev' = [NoEvent EXCEPT !.op = "load_image", !.host = dims, !.had = TRUE,
                             !.prev = BoundTexture(renderer)]
    /\ calls' = Append(calls, [op |-> "load_image", args |-> dims, realloc |-> FALSE])
    /\ UNCHANGED <<camera, initTask, loads, doneOrder, paintable, dead, running, app>>

UnitRender ==
    /\ Len(calls) <= MaxCalls
    /\ ev' = [NoEvent EXCEPT !.op = "render", !.had = TRUE, !.renders = 1,
                             !.prev = BoundTexture(renderer),
                             !.out = <<RenderOutput(renderer[1], camera)>>]
    /\ calls' = Append(calls, [op |-> "render", args |-> <<>>, realloc |-> FALSE])
    /\ UNCHANGED <<renderer, camera, initTask, loads, doneOrder, paintable, dead, running,
                   app>>

\* a direct call of Camera::build_view_projection_matrix; the camera is not changed
UnitBuildMatrix ==
    /\ Len(calls) <= MaxCalls
    /\ ev' = [NoEvent EXCEPT !.op = "build_view_projection_matrix", !.had = TRUE,
                             !.out = <<BuildViewProjectionMatrix(camera)>>]
    /\ calls' = Append(calls, [op |-> "build_view_projection_matrix", args |-> <<>>,
                               realloc |-> FALSE])
    /\ UNCHANGED <<renderer, camera, initTask, loads, doneOrder, paintable, dead, running,
                   app>>

UnitNext ==
    \/ \E a \in ResizeArgs : UnitResize(a[1], a[2])
    \/ \E a \in ViewportArgs : UnitSetViewportSize(a[1], a[2])
    \/ \E d \in UnitImageDims : UnitLoadImage(d)
    \/ UnitRender
    \/ UnitBuildMatrix

UnitSpec == UnitInit /\ [][UnitNext]_vars

(***************************************************************************)
(* create_targets at large sizes.  The row stride and the buffer size are  *)
(* computed in u32, and the values pass 2^31, so here numbers are written  *)
(* as little-endian sequences of NBytes bytes and the arithmetic is done   *)
(* byte by byte: the exact value, the value wrapped to 32 bits, and        *)
(* whether the two differ (the operation overflowed).                      *)
(***************************************************************************)
NBytes == 10

\* the bytes of an integer 0 <= n < 2^31
Wide(n) ==
    [k \in 1..NBytes |->
        IF k = 1 THEN n % 256
        ELSE IF k = 2 THEN (n \div 256) % 256
        ELSE IF k = 3 THEN (n \div 65536) % 256
        ELSE IF k = 4 THEN (n \div 16777216) % 256
        ELSE 0]

RECURSIVE WAddFrom(_, _, _, _)
WAddFrom(a, b, k, carry) ==
    IF k > NBytes THEN <<>>
    ELSE <<(a[k] + b[k] + carry) % 256>>
         \o WAddFrom(a, b, k + 1, (a[k] + b[k] + carry) \div 256)

\* the exact sum
WAdd(a, b) == WAddFrom(a, b, 1, 0)

RECURSIVE ColSum(_, _, _, _)
ColSum(a, b, k, i) ==
    IF i > k THEN 0 ELSE a[i] * b[k + 1 - i] + ColSum(a, b, k, i + 1)

RECURSIVE WMulFrom(_, _, _, _)
WMulFrom(a, b, k, carry) ==
    IF k > NBytes THEN <<>>
    ELSE <<(ColSum(a, b, k, 1) + carry) % 256>>
         \o WMulFrom(a, b, k + 1, (ColSum(a, b, k, 1) + carry) \div 256)

\* the exact product
WMul(a, b) == WMulFrom(a, b, 1, 0)

\* the value wrapped to 32 bits
Low32(x) == [k \in 1..NBytes |-> IF k <= 4 THEN x[k] ELSE 0]

\* the value is below 2^32
Fits32(x) == \A k \in 5..NBytes : x[k] = 0

\* Limits::default().max_texture_dimension_2d, the limit the device is
\* requested with
MaxTextureDimension2D == 8192

\* gpu.device.create_texture validates the extent against the device's limits;
\* a size beyond them is a validation error, which the device's default
\* uncaptured-error handler turns into a panic
TextureSizeValid(width, height) ==
    width <= MaxTextureDimension2D /\ height <= MaxTextureDimension2D

\* the arithmetic of lines 271-281 in u32: with overflow checks (a debug build)
\* the first overflowing operation panics and no buffer is created; without
\* them (a release build) each result wraps to 32 bits
TargetsArithmetic(width, height, checks) ==
    LET unpaddedX == WMul(Wide(width), Wide(4))
        unpadded == Low32(unpaddedX)
        padding == (Align - (unpadded[1] % Align)) % Align
        paddedX == WAdd(unpadded, Wide(padding))
        padded == Low32(paddedX)
        sizeX == WMul(padded, Wide(height))
        size == Low32(sizeX)
        overflow == ~Fits32(unpaddedX) \/ ~Fits32(paddedX) \/ ~Fits32(sizeX)
    IN [overflow |-> overflow,
        panicked |-> checks /\ overflow,
        padded |-> IF checks /\ overflow THEN <<>> ELSE padded,
        size |-> IF checks /\ overflow THEN <<>> ELSE size]

\* create_targets that computes the stride and the buffer size before it
\* creates the texture
CreateTargetsArithmeticFirst(width, height, checks) ==
    LET t == TargetsArithmetic(width, height, checks)
    IN IF t.panicked
       THEN [t EXCEPT !.panicked = TRUE] @@ [computed |-> TRUE,
                                            steps |-> <<"arithmetic", "panic">>]
       ELSE IF ~TextureSizeValid(width, height)
       THEN [t EXCEPT !.panicked = TRUE, !.padded = <<>>, !.size = <<>>]
            @@ [computed |-> TRUE, steps |-> <<"arithmetic", "create_texture", "panic">>]
       ELSE t @@ [computed |-> TRUE,
                  steps |-> <<"arithmetic", "create_texture", "create_buffer">>]

\* create_targets in u32: create_texture (line 260) comes first and panics on a
\* size beyond the device's limits, before any arithmetic; then the arithmetic
\* of lines 271-274 and 278, then create_buffer
CreateTargetsU32(width, height, checks) ==
    IF ~TextureSizeValid(width, height)
    THEN [overflow |-> FALSE, panicked |-> TRUE, padded |-> <<>>, size |-> <<>>,
          computed |-> FALSE, steps |-> <<"create_texture", "panic">>]
    ELSE LET t == TargetsArithmetic(width, height, checks)
         IN t @@ [computed |-> TRUE,
                  steps |-> IF t.panicked
                            THEN <<"create_texture", "arithmetic", "panic">>
                            ELSE <<"create_texture", "arithmetic", "create_buffer">>]

\* the row stride and the buffer size as exact numbers: 4 * width rounded up to a
\* multiple of 256, times height
ExactTargets(width, height) ==
    LET unpadded == WMul(Wide(width), Wide(4))
        padding == (Align - (unpadded[1] % Align)) % Align
        padded == WAdd(unpadded, Wide(padding))
    IN [padded |-> padded, size |-> WMul(padded, Wide(height))]

\* target sizes a tick can request: pic.width().max(1), pic.height().max(1)
LargeWidths ==
    {1, 64, 65, 8191, 8192, 8193, 32768, 65536, 1073741760, 1073741823, 1073741824,
     2147483647}

LargeHeights == {1, 2, 8192, 8193, 32768, 65536, 2147483647}

\* IrisRenderer::new(gpu, 1, 1) with the stride and the buffer size as bytes
IrisRendererNewU32 ==
    [IrisRendererNew(1, 1) EXCEPT
        !.padded_bytes_per_row = Wide(IrisRendererNew(1, 1).padded_bytes_per_row),
        !.output_buffer = [size |-> Wide(IrisRendererNew(1, 1).output_buffer.size),
                           mapped |-> FALSE]]

\* IrisRenderer::resize in u32: width and height are assigned first, then
\* create_targets makes the new targets; when it panics (a texture size beyond
\* the limits, or an overflow under overflow checks) the texture, the buffer
\* and the stride are the old ones
RendererResizeU32(r, width, height, checks) ==
    IF ResizeAllocates(r, width, height)
    THEN LET t == CreateTargetsU32(width, height, checks)
         IN IF t.panicked
            THEN [r EXCEPT !.width = width, !.height = height]
            ELSE [r EXCEPT !.width = width,
                           !.height = height,
                           !.output_texture = <<width, height>>,
                           !.output_buffer = [size |-> t.size, mapped |-> FALSE],
                           !.padded_bytes_per_row = t.padded]
    ELSE r

\* the program was built with overflow checks (debug) or without (release); the
\* build is recorded with the call of IrisRenderer::new
SizeInit ==
    /\ renderer = <<IrisRendererNewU32>>
    /\ \E checks \in BOOLEAN :
          calls = <<[op |-> "new", args |-> <<1, 1>>, realloc |-> TRUE,
                     overflow_checks |-> checks]>>
    /\ camera = CameraNew
    /\ initTask = "finished"
    /\ loads = <<>>
    /\ doneOrder = <<>>
    /\ paintable = <<>>
    /\ dead = FALSE
    /\ ev = NoEvent
    /\ running = Idle
    /\ app = AppStateNew

\* resize(width, height) as the tick calls it, on the renderer as it is; what
\* create_targets did and computed is recorded in ev.steps and ev.out
ResizeLarge(width, height) ==
    /\ ~dead
    /\ LET checks == calls[1].overflow_checks
           allocates == ResizeAllocates(renderer[1], width, height)
           t == CreateTargetsU32(width, height, checks)
       IN /\ renderer' = <<RendererResizeU32(renderer[1], width, height, checks)>>
          /\ dead' = (allocates /\ t.panicked)
          /\ ev' = [NoEvent EXCEPT !.op = "resize", !.host = <<width, height>>,
                                   !.had = TRUE, !.realloc = allocates,
                                   !.steps = IF allocates THEN t.steps ELSE <<>>,
                                   !.out = IF allocates THEN <<t>> ELSE <<>>]
    /\ UNCHANGED <<camera, initTask, loads, doneOrder, paintable, calls, running, app>>

SizeNext ==
    \E width \in LargeWidths, height \in LargeHeights : ResizeLarge(width, height)

SizeSpec == SizeInit /\ [][SizeNext]_vars

(***************************************************************************)
(* main.rs: AppState, the file list and the current index, driven by the   *)
(* open dialog, the Right/space and Left keys and the thumbnail buttons.   *)
(* Files are numbers, ordered as files.sort() orders their paths;          *)
(* current_index counts from 0 as in the code, so the current file is      *)
(* files[current_index + 1] here.                                          *)
(***************************************************************************)
MaxFiles == 3

\* the image files read_dir can find in the opened file's directory
Listings == SUBSET (1..MaxFiles)

\* what std::fs::read_dir(parent) returns: <<>> is Err (the directory does not
\* exist, is not a directory or cannot be read), <<S>> is Ok with image files S
ReadDirResults == {<<>>} \cup {<<S>> : S \in Listings}

\* the path picked in the dialog: 0 is a file the extension filter rejects
OpenPaths == 0..MaxFiles

\* files.sort()
RECURSIVE SortedSeq(_)
SortedSeq(S) ==
    IF S = {} THEN <<>>
    ELSE LET m == CHOOSE x \in S : \A y \in S : x <= y
         IN <<m>> \o SortedSeq(S \ {m})

\* files.iter().position(|f| f == path).unwrap_or(0)
PositionOrZero(files, path) ==
    IF \E k \in 1..Len(files) : files[k] = path
    THEN (CHOOSE k \in 1..Len(files) : files[k] = path) - 1
    ELSE 0

\* AppState::current_path: files.get(current_index).cloned()
CurrentPath(st) ==
    IF st.current_index < Len(st.files) THEN <<st.files[st.current_index + 1]>> ELSE <<>>

\* AppState::load_directory: the state it leaves, and whether it panicked;
\* read_dir(parent).unwrap() panics on Err, before anything is assigned
LoadDirectory(st, path, hasParent, dir) ==
    IF hasParent
    THEN IF dir = <<>>
         THEN [st |-> st, panicked |-> TRUE]
         ELSE [st |-> [st EXCEPT !.files = SortedSeq(dir[1]),
                                 !.current_index = PositionOrZero(SortedSeq(dir[1]), path)],
               panicked |-> FALSE]
    ELSE [st |-> st, panicked |-> FALSE]

\* next that stops one past the last file
NextIndexPastEnd(idx, len) == IF idx + 1 > len THEN idx ELSE idx + 1

NextIndex(idx, len) == (idx + 1) % len

\* prev that stops at the first file
PrevIndexClamped(idx, len) == IF idx = 0 THEN 0 ELSE idx - 1

PrevIndex(idx, len) == (idx + len - 1) % len

\* AppState::next, the state it leaves
AppStateNext(st) ==
    IF st.files = <<>> THEN st
    ELSE [st EXCEPT !.current_index = NextIndex(st.current_index, Len(st.files))]

\* AppState::prev, the state it leaves
AppStatePrev(st) ==
    IF st.files = <<>> THEN st
    ELSE [st EXCEPT !.current_index = PrevIndex(st.current_index, Len(st.files))]

\* what next and prev return, given the state they leave
Returned(before, after) == IF before.files = <<>> THEN <<>> ELSE CurrentPath(after)

AppInit ==
    /\ renderer = <<>>
    /\ camera = CameraNew
    /\ initTask = "pending"
    /\ loads = <<>>
    /\ doneOrder = <<>>
    /\ paintable = <<>>
    /\ dead = FALSE
    /\ ev = NoEvent
    /\ calls = <<>>
    /\ running = Idle
    /\ app = AppStateNew

\* the open dialog's callback: load_directory, then populate_thumbnails rebuilds
\* one button per file; a panic of load_directory ends the process there
OpenFile(path, hasParent, dir) ==
    /\ ~dead
    /\ LET d == LoadDirectory(app, path, hasParent, dir)
       IN /\ app' = IF d.panicked
                    THEN app
                    ELSE [d.st EXCEPT !.thumbs = d.st.files,
                                      !.start = d.st.current_index, !.nexts = 0]
          /\ dead' = d.panicked
          /\ ev' = [NoEvent EXCEPT !.op = "open", !.id = path,
                                   !.had = (app.files # <<>>),
                                   !.prev = <<app.current_index>>,
                                   !.steps = IF d.panicked
                                             THEN <<"read_dir", "panic">>
                                             ELSE IF hasParent THEN <<"read_dir">>
                                             ELSE <<>>]
    /\ UNCHANGED <<renderer, camera, initTask, loads, doneOrder, paintable, calls,
                   running>>

\* AppState::next on st, counting the next calls made in a row
CountedNext(st) ==
    LET s == AppStateNext(st)
    IN IF st.nexts < Len(st.files)
       THEN [s EXCEPT !.nexts = st.nexts + 1]
       ELSE [s EXCEPT !.start = st.current_index,
                      !.nexts = IF st.files = <<>> THEN 0 ELSE 1]

\* AppState::prev on st; it ends a row of next calls
CountedPrev(st) ==
    LET s == AppStatePrev(st) IN [s EXCEPT !.start = s.current_index, !.nexts = 0]

\* what a call of next on st did: the index before it and the path it returned
NextEvent(st) ==
    [NoEvent EXCEPT !.op = "next", !.had = (st.files # <<>>),
                    !.prev = <<st.current_index>>,
                    !.out = Returned(st, AppStateNext(st))]

\* what a call of prev on st did
PrevEvent(st) ==
    [NoEvent EXCEPT !.op = "prev", !.had = (st.files # <<>>),
                    !.prev = <<st.current_index>>,
                    !.out = Returned(st, AppStatePrev(st))]

\* a key handler that ran load_image while it held the state borrowed
KeyLoadsUnderBorrow(st) == st.files # <<>>

\* the Right or space key: `if let Some(p) = state.borrow_mut().next() { load_key(p) }`.
\* The RefMut of the scrutinee lives to the end of the if let, so with a
\* non-empty list load_image runs under it and its first statement,
\* state.borrow(), panics (already mutably borrowed) after next has moved the
\* index; with an empty list next returns None and nothing is loaded
KeyNext ==
    /\ ~dead
    /\ app' = CountedNext(app)
    /\ ev' = NextEvent(app)
    /\ dead' = KeyLoadsUnderBorrow(app)
    /\ UNCHANGED <<renderer, camera, initTask, loads, doneOrder, paintable, calls,
                   running>>

\* the Left key: `if let Some(p) = state.borrow_mut().prev() { load_key(p) }`,
\* with the same borrow held over load_image
KeyPrev ==
    /\ ~dead
    /\ app' = CountedPrev(app)
    /\ ev' = PrevEvent(app)
    /\ dead' = KeyLoadsUnderBorrow(app)
    /\ UNCHANGED <<renderer, camera, initTask, loads, doneOrder, paintable, calls,
                   running>>

\* a click on the thumbnail button built for files[i]: current_index = i
ThumbClick(i) ==
    /\ ~dead
    /\ i \in 0..(Len(app.thumbs) - 1)
    /\ app' = [app EXCEPT !.current_index = i, !.start = i, !.nexts = 0]
    /\ ev' = [NoEvent EXCEPT !.op = "click", !.id = i, !.had = (app.files # <<>>),
                             !.prev = <<app.current_index>>,
                             !.out = <<app.thumbs[i + 1]>>]
    /\ UNCHANGED <<renderer, camera, initTask, loads, doneOrder, paintable, dead, calls,
                   running>>

AppNext ==
    \/ \E path \in OpenPaths, hasParent \in BOOLEAN, dir \in ReadDirResults :
          OpenFile(path, hasParent, dir)
    \/ KeyNext
    \/ KeyPrev
    \/ \E i \in 0..(MaxFiles - 1) : ThumbClick(i)

AppSpec == AppInit /\ [][AppNext]_vars

(***************************************************************************)
(* The operations on AppState called on the state itself, in any order and *)
(* any number of times: load_directory with the thumbnail rebuild that     *)
(* follows it, the index a thumbnail button sets, and next and prev        *)
(* without the key handler around them.                                    *)
(***************************************************************************)

\* state.next()
CallNext ==
    /\ ~dead
    /\ app' = CountedNext(app)
    /\ ev' = NextEvent(app)
    /\ UNCHANGED <<renderer, camera, initTask, loads, doneOrder, paintable, dead, calls,
                   running>>

\* state.prev()
CallPrev ==
    /\ ~dead
    /\ app' = CountedPrev(app)
    /\ ev' = PrevEvent(app)
    /\ UNCHANGED <<renderer, camera, initTask, loads, doneOrder, paintable, dead, calls,
                   running>>

NavNext ==
    \/ \E path \in OpenPaths, hasParent \in BOOLEAN, dir \in ReadDirResults :
          OpenFile(path, hasParent, dir)
    \/ CallNext
    \/ CallPrev
    \/ \E i \in 0..(MaxFiles - 1) : ThumbClick(i)

NavSpec == AppInit /\ [][NavNext]_vars

(***************************************************************************)
(* Derived notions used by the properties                                  *)
(***************************************************************************)
\* the decode result load i delivered on its channel
ResultOf(i) == loads[i].result[1]

\* the texture a successful upload of a decoded image creates
TexOf(res) == [src |-> res.src, w |-> res.w, h |-> res.h]

\* width * 4 rounded up to the next multiple of 256
RoundUpStride(width) == ((width * 4 + 255) \div 256) * 256

\* the controller's states
Uninitialized(slot) == slot = <<>>
Displaying(slot) == slot # <<>> /\ slot[1].bind_group # DefaultTexture
Ready(slot) == slot # <<>> /\ slot[1].bind_group = DefaultTexture

\* the load whose completion was processed last
LastDone == doneOrder[Len(doneOrder)]

(***************************************************************************)
(* C1: whenever a renderer exists (after IrisRenderer::new and after any   *)
(* sequence of resizes), padded_bytes_per_row is width*4 rounded up to the *)
(* next multiple of 256 for the current width: a multiple of 256, at least *)
(* width*4 and less than width*4 + 256.                                    *)
(***************************************************************************)
C1_StrideRoundedUp ==
    renderer # <<>> =>
        LET r == renderer[1]
        IN /\ r.padded_bytes_per_row % 256 = 0
           /\ r.padded_bytes_per_row >= r.width * 4
           /\ r.padded_bytes_per_row < r.width * 4 + 256
           /\ r.padded_bytes_per_row = RoundUpStride(r.width)

\* a tick has resized the target to width 64, whose rows need no padding
C1_Witness ==
    /\ renderer # <<>>
    /\ ev.op = "tick" /\ ev.resized
    /\ renderer[1].width = 64
    /\ renderer[1].padded_bytes_per_row = 256

(***************************************************************************)
(* C2: image_dims and the texture of the current bind group always belong  *)
(* to the same image, and every render, also one that runs while a load is *)
(* pending, draws with the dimensions of the texture it binds, which is    *)
(* the texture that was bound when the tick began.                         *)
(***************************************************************************)
C2_RenderSeesWholeImage ==
    /\ renderer # <<>> =>
           renderer[1].image_dims = <<renderer[1].bind_group.w, renderer[1].bind_group.h>>
    /\ (ev.op = "tick" /\ ev.renders = 1) =>
           /\ ev.out[1].dims = <<ev.out[1].tex.w, ev.out[1].tex.h>>
           /\ ev.out[1].tex = ev.prev[1]

\* a render of image A while the decoded result of another load waits to be installed
C2_Witness ==
    /\ ev.op = "tick" /\ ev.renders = 1
    /\ ev.out[1].tex.src = "A"
    /\ \E i \in 1..Len(loads) : loads[i].st = "sent" /\ loads[i].path = "B"

(***************************************************************************)
(* C3 (as claimed): when two loads were issued, both decodes succeeded and *)
(* their completions were processed in issue order, a render reports the   *)
(* second image's dimensions and image scale.                              *)
(***************************************************************************)
C3_SecondImageRendered ==
    ( /\ ev.op = "tick" /\ ev.renders = 1
      /\ Len(loads) = 2
      /\ doneOrder = <<1, 2>>
      /\ ResultOf(1).ok /\ ResultOf(2).ok )
    => /\ ev.out[1].dims = <<ResultOf(2).w, ResultOf(2).h>>
       /\ ev.out[1].scale = ImageScale(<<ResultOf(2).w, ResultOf(2).h>>)
       /\ ev.out[1].tex = TexOf(ResultOf(2))

(***************************************************************************)
(* C4: completions carry no request token: when the completion of an older *)
(* load with a successful decode is processed while the image of a newer,  *)
(* already completed load is installed, the older image is installed over  *)
(* it and becomes the current image.                                       *)
(***************************************************************************)
C4_StaleCompletionOverwrites ==
    ( /\ ev.op = "completion"
      /\ ResultOf(ev.id).ok
      /\ \E j \in (ev.id + 1)..Len(loads) :
            /\ loads[j].st = "done"
            /\ ResultOf(j).ok
            /\ ev.prev = <<TexOf(ResultOf(j))>> )
    => /\ renderer # <<>>
       /\ renderer[1].bind_group = TexOf(ResultOf(ev.id))
       /\ renderer[1].image_dims = <<ResultOf(ev.id).w, ResultOf(ev.id).h>>

\* A was requested first, B second; B was installed first and A replaced it
C4_Witness ==
    /\ ev.op = "completion" /\ ev.id = 1
    /\ Len(loads) >= 2
    /\ loads[1].path = "A" /\ loads[2].path = "B"
    /\ loads[2].st = "done"
    /\ ev.prev = <<TexOf(Decode("B"))>>
    /\ renderer # <<>>
    /\ renderer[1].bind_group.src = "A"

(***************************************************************************)
(* C5: the completion of a failed decode changes neither the renderer      *)
(* (image_dims, bind group and all else), nor the camera, nor the          *)
(* published frame, and does not kill the process; a tick that follows it  *)
(* with the renderer present renders the image that was bound before the   *)
(* failure, and a tick publishes what it has rendered when its readback    *)
(* succeeds.                                                               *)
(***************************************************************************)
C5_FailedDecodeHarmless ==
    /\ [][ (ev'.op = "completion" /\ ~loads[ev'.id].result[1].ok)
           => /\ renderer' = renderer
              /\ camera' = camera
              /\ paintable' = paintable
              /\ initTask' = initTask
              /\ dead' = dead /\ ~dead' ]_vars
    /\ [][ ( /\ ev.op = "completion" /\ ~loads[ev.id].result[1].ok
             /\ ev'.op = "tick_enter" )
           => /\ ev'.renders = 1
              /\ ev'.out[1].tex = ev.prev[1]
              /\ ev'.out[1].dims = <<ev.prev[1].w, ev.prev[1].h>>
              /\ running'.tick = <<ev'>> ]_vars
    /\ [][ (ev'.op = "tick" /\ ev'.had)
           => /\ ev'.out = running.tick[1].out
              /\ (ev'.publishes = 1 \/ dead')
              /\ (ev'.publishes = 1 => paintable'[1].bytes = running.tick[1].out[1]) ]_vars

\* image A is displayed, a later decode has failed, and the next tick publishes A
C5_Witness ==
    /\ ev.op = "tick" /\ ev.publishes = 1
    /\ doneOrder # <<>>
    /\ ~ResultOf(LastDone).ok
    /\ paintable[1].bytes.tex.src = "A"

(***************************************************************************)
(* C6 (as claimed): whenever the completion of a load with a successful    *)
(* decode has been processed, before or after initialization completed,    *)
(* the decoded image has been uploaded and is the current image.           *)
(***************************************************************************)
C6_SuccessfulDecodeInstalled ==
    (ev.op = "completion" /\ ResultOf(ev.id).ok)
    => /\ renderer # <<>>
       /\ renderer[1].bind_group = TexOf(ResultOf(ev.id))
       /\ renderer[1].image_dims = <<ResultOf(ev.id).w, ResultOf(ev.id).h>>

(***************************************************************************)
(* C7: the controller only moves forward: the slot is filled only by the   *)
(* initialization task, which runs once and installs the 1x1 renderer; a   *)
(* filled slot is never emptied; and once an image is installed, no step   *)
(* brings the default texture back.                                        *)
(***************************************************************************)
C7_ForwardOnly ==
    [][ /\ (renderer # <<>> => renderer' # <<>>)
        /\ (Displaying(renderer) => Displaying(renderer'))
        /\ ((renderer = <<>> /\ renderer' # <<>>)
               => /\ initTask = "pending" /\ initTask' = "finished"
                  /\ ev'.op = "init"
                  /\ Ready(renderer'))
        /\ (initTask = "finished" => initTask' = "finished") ]_vars

\* an image is displayed after a tick resized the target and a later decode failed
C7_Witness ==
    /\ Displaying(renderer)
    /\ renderer[1].width = 65
    /\ ev.op = "completion"
    /\ ~ResultOf(ev.id).ok

(***************************************************************************)
(* C8: a tick that runs while the renderer slot is empty does nothing: no  *)
(* resize, no camera update, no render, no readback, no publish; camera,   *)
(* slot and published frame stay as they were.                             *)
(***************************************************************************)
C8_TickBeforeInitIsNoOp ==
    [][ (ev'.op = "tick" /\ renderer = <<>>)
        => /\ renderer' = <<>>
           /\ camera' = camera
           /\ paintable' = paintable
           /\ dead' = dead
           /\ ~ev'.resized /\ ~ev'.camset
           /\ ev'.renders = 0 /\ ev'.maps = 0 /\ ev'.publishes = 0 ]_vars

\* a tick for a 64x2 widget ran before initialization completed
C8_Witness ==
    /\ ev.op = "tick" /\ ~ev.had
    /\ ev.host = <<64, 3>>
    /\ initTask = "pending"
    /\ renderer = <<>>
    /\ camera = CameraNew
    /\ paintable = <<>>

(***************************************************************************)
(* C9: in a tick with the renderer present and a widget size (w, h) that   *)
(* differs from the renderer's size, the resize and the camera update      *)
(* precede the render: that tick's render, and the frame it publishes,     *)
(* have width max(w,1), height max(h,1), the row stride of that width and  *)
(* the camera aspect of that size.                                         *)
(***************************************************************************)
C9_ResizeBeforeRender ==
    (ev.op = "tick" /\ ev.had /\ ev.needs) =>
        LET cw == Max(ev.host[1], 1)
            ch == Max(ev.host[2], 1)
            out == ev.out[1]
        IN /\ ev.resized
           /\ out.width = cw /\ out.height = ch
           /\ out.stride = RoundUpStride(cw)
           /\ out.aspect = Frac(cw, ch)
           /\ renderer[1].output_texture = <<cw, ch>>
           /\ renderer[1].output_buffer.size = RoundUpStride(cw) * ch
           /\ ev.publishes = 1 =>
                  /\ paintable[1].width = cw
                  /\ paintable[1].height = ch
                  /\ paintable[1].stride = RoundUpStride(cw)
                  /\ paintable[1].bytes = out

\* the widget went to 65x0 and the frame published in that tick is 65x1, stride 512
C9_Witness ==
    /\ ev.op = "tick" /\ ev.had /\ ev.needs
    /\ ev.host = <<65, 0>>
    /\ ev.publishes = 1
    /\ paintable[1].width = 65 /\ paintable[1].height = 1
    /\ paintable[1].stride = 512

(***************************************************************************)
(* C10 (as claimed): every tick with the renderer present renders once and *)
(* publishes one frame, whose width, height and row stride are the         *)
(* renderer's.                                                             *)
(***************************************************************************)
C10_EveryTickPublishes ==
    (ev.op = "tick" /\ ev.had) =>
        /\ ev.renders = 1
        /\ ev.publishes = 1
        /\ paintable # <<>>
        /\ paintable[1].width = renderer[1].width
        /\ paintable[1].height = renderer[1].height
        /\ paintable[1].stride = renderer[1].padded_bytes_per_row

(***************************************************************************)
(* C10 (amended): every tick with the renderer present renders once and    *)
(* maps the readback buffer once; when the map succeeds it publishes       *)
(* exactly one frame, whose width, height and row stride are the           *)
(* renderer's and whose bytes are that render's output; when the map fails *)
(* it publishes nothing and the process panics.                            *)
(***************************************************************************)
C10_TickPublishesUnlessMapFails ==
    (ev.op = "tick" /\ ev.had) =>
        /\ ev.renders = 1 /\ ev.maps = 1
        /\ ev.publishes \in {0, 1}
        /\ (ev.publishes = 0) = dead
        /\ ev.publishes = 1 =>
               /\ paintable # <<>>
               /\ paintable[1].width = renderer[1].width
               /\ paintable[1].height = renderer[1].height
               /\ paintable[1].stride = renderer[1].padded_bytes_per_row
               /\ paintable[1].bytes = ev.out[1]

\* a tick with image B bound published a 65-wide frame with the padded stride
C10_Witness ==
    /\ ev.op = "tick" /\ ev.had /\ ev.publishes = 1
    /\ Displaying(renderer)
    /\ renderer[1].bind_group.src = "B"
    /\ paintable[1].width = 65
    /\ paintable[1].stride = 512

\* the position of call c in the last tick's sequence of calls (0 when absent)
StepAt(c) ==
    IF \E k \in 1..Len(ev.steps) : ev.steps[k] = c
    THEN CHOOSE k \in 1..Len(ev.steps) : ev.steps[k] = c
    ELSE 0

(***************************************************************************)
(* C11: one frame in flight: between steps the readback buffer is never    *)
(* mapped, so every tick, resize and image upload starts with it unmapped; *)
(* within a tick the render's copy goes into an unmapped buffer, the map   *)
(* is requested after the render was submitted and, when it succeeded, the *)
(* buffer is unmapped as the tick's last call.                             *)
(***************************************************************************)
C11_OneFrameInFlight ==
    /\ renderer # <<>> => ~renderer[1].output_buffer.mapped
    /\ (ev.op = "tick" /\ ev.had) =>
           /\ ~ev.out[1].buffer_mapped
           /\ StepAt("render") > 0
           /\ StepAt("render") < StepAt("map_async")
           /\ StepAt("resize") < StepAt("render")
           /\ ev.publishes = 1 =>
                  /\ StepAt("map_async") < StepAt("set_paintable")
                  /\ StepAt("set_paintable") < StepAt("unmap")
                  /\ StepAt("unmap") = Len(ev.steps)

\* a second tick in a row, without a resize, has rendered and published
C11_Witness ==
    /\ ev.op = "tick" /\ ev.had /\ ~ev.needs
    /\ ev.publishes = 1
    /\ paintable[1].width = 65
    /\ ~renderer[1].output_buffer.mapped
    /\ ~ev.out[1].buffer_mapped

(***************************************************************************)
(* C12: renderer and camera change only in steps of the cooperative        *)
(* thread (initialization, tick, load completion); a decode thread's step  *)
(* changes nothing but its own channel, on which it puts the result of     *)
(* decoding its path, a value that does not depend on renderer or camera.  *)
(***************************************************************************)
C12_SingleOwnerThread ==
    /\ [][ (renderer' # renderer \/ camera' # camera \/ paintable' # paintable)
           => ev'.op \in {"init", "tick_enter", "tick", "completion"} ]_vars
    /\ [][ ev'.op = "decode"
           => /\ renderer' = renderer
              /\ camera' = camera
              /\ paintable' = paintable
              /\ initTask' = initTask
              /\ doneOrder' = doneOrder
              /\ dead' = dead
              /\ Len(loads') = Len(loads)
              /\ \A j \in 1..Len(loads) : j # ev'.id => loads'[j] = loads[j]
              /\ loads[ev'.id].st = "decoding"
              /\ loads'[ev'.id].st = "sent"
              /\ loads'[ev'.id].path = loads[ev'.id].path
              /\ loads'[ev'.id].result = <<Decode(loads[ev'.id].path)>> ]_vars

\* the decode thread of B has sent its image while image A is displayed
C12_Witness ==
    /\ ev.op = "decode" /\ ev.id = 2
    /\ loads[2].path = "B" /\ loads[2].st = "sent"
    /\ Displaying(renderer)
    /\ renderer[1].bind_group.src = "A"

(***************************************************************************)
(* C13: every load_image call gets exactly one decode result, delivered    *)
(* once and consumed at most once by its completion task, so a call causes *)
(* at most one install; issuing a load leaves the earlier loads as they    *)
(* are (no cancellation, no duplication); and while the process has not    *)
(* panicked, the completion of every issued load is eventually processed.  *)
(***************************************************************************)
C13_ExactlyOnceDelivery ==
    /\ [](\A a, b \in 1..Len(doneOrder) : a # b => doneOrder[a] # doneOrder[b])
    /\ [](\A i \in 1..Len(loads) :
            /\ (loads[i].st = "done") = (\E a \in 1..Len(doneOrder) : doneOrder[a] = i)
            /\ (loads[i].result = <<>>) = (loads[i].st = "decoding"))
    /\ [][ /\ Len(loads') >= Len(loads)
           /\ \A i \in 1..Len(loads) :
                /\ loads'[i].path = loads[i].path
                /\ loads[i].st = "sent" =>
                       loads'[i].st \in {"sent", "done"} /\ loads'[i].result = loads[i].result
                /\ loads[i].st = "done" => loads'[i] = loads[i]
           /\ ev'.installed =>
                  /\ ev'.op = "completion"
                  /\ loads[ev'.id].st = "sent" /\ loads'[ev'.id].st = "done"
           /\ ev'.op = "load" =>
                  /\ Len(loads') = Len(loads) + 1
                  /\ doneOrder' = doneOrder
                  /\ \A i \in 1..Len(loads) : loads'[i] = loads[i] ]_vars
    /\ \A i \in 1..MaxLoads :
           (Len(loads) >= i) ~> (dead \/ (Len(loads) >= i /\ loads[i].st = "done"))

\* a second load was issued while the first was pending and both completions ran
C13_Witness ==
    /\ Len(loads) = 2
    /\ doneOrder = <<2, 1>>
    /\ loads[1].st = "done" /\ loads[2].st = "done"
    /\ ~dead

\* some load has been issued and its completion has not been processed yet
SomeLoadPending == \E i \in 1..Len(loads) : loads[i].st # "done"

(***************************************************************************)
(* C14: a pending decode does not block the cooperative thread: while a    *)
(* load is pending and the process is alive, a tick can start and a tick   *)
(* that has started can finish; and a tick that ran while a load was       *)
(* pending, with the                                                       *)
(* renderer present, rendered once with the image resource that was bound  *)
(* before it, left that resource bound, and published that render when its *)
(* readback map succeeded.                                                 *)
(***************************************************************************)
C14_PendingDecodeDoesNotBlock ==
    /\ (~dead /\ SomeLoadPending /\ running.task = "idle") =>
           ENABLED (\E s \in HostSizes : TickEnter(s[1], s[2]))
    /\ (~dead /\ SomeLoadPending /\ running.task = "tick") => ENABLED TickLeave(TRUE)
    /\ (ev.op = "tick" /\ ev.had /\ SomeLoadPending) =>
           /\ ev.renders = 1
           /\ ev.out[1].tex = ev.prev[1]
           /\ renderer[1].bind_group = ev.prev[1]
           /\ ev.publishes = 1 \/ dead
           /\ ev.publishes = 1 =>
                  /\ paintable[1].bytes = ev.out[1]
                  /\ paintable[1].bytes.tex = ev.prev[1]

\* A is displayed, the decode of B is still running, and a tick has published A
C14_Witness ==
    /\ ev.op = "tick" /\ ev.had /\ ev.publishes = 1
    /\ Len(loads) = 2
    /\ loads[1].path = "A" /\ loads[1].st = "done"
    /\ loads[2].path = "B" /\ loads[2].st = "decoding"
    /\ paintable[1].bytes.tex.src = "A"

(***************************************************************************)
(* Notions for the directly called renderer and camera                     *)
(***************************************************************************)
\* the reallocation counter: how many of the resize calls k..Len(calls) have
\* recreated the output target
RECURSIVE ReallocsFrom(_)
ReallocsFrom(k) ==
    IF k > Len(calls) THEN 0
    ELSE (IF calls[k].op = "resize" /\ calls[k].realloc THEN 1 ELSE 0) + ReallocsFrom(k + 1)

\* the calls after IrisRenderer::new are exactly resize(100,100), resize(100,100),
\* resize(200,150)
ResizeSequenceDone ==
    /\ Len(calls) = 4
    /\ calls[2].op = "resize" /\ calls[2].args = <<100, 100>>
    /\ calls[3].op = "resize" /\ calls[3].args = <<100, 100>>
    /\ calls[4].op = "resize" /\ calls[4].args = <<200, 150>>

(***************************************************************************)
(* C15: resize called with the renderer's current width and height         *)
(* recreates nothing and leaves the renderer as it is; and a resize that   *)
(* repeats the arguments of the resize before it recreates nothing and     *)
(* changes nothing, so calling it twice is calling it once.                *)
(***************************************************************************)
C15_ResizeSameSizeNoOp ==
    /\ [][ (ev'.op = "resize" /\ ev'.host = <<renderer[1].width, renderer[1].height>>)
           => /\ ~ev'.realloc
              /\ renderer' = renderer ]_vars
    /\ [][ (ev.op = "resize" /\ ev'.op = "resize" /\ ev'.host = ev.host)
           => /\ ~ev'.realloc
              /\ renderer' = renderer ]_vars

\* resize(200,150) twice: the first recreated the target, the second did not
C15_Witness ==
    /\ Len(calls) >= 3
    /\ calls[Len(calls) - 1] = [op |-> "resize", args |-> <<200, 150>>, realloc |-> TRUE]
    /\ calls[Len(calls)] = [op |-> "resize", args |-> <<200, 150>>, realloc |-> FALSE]
    /\ renderer[1].width = 200 /\ renderer[1].height = 150
    /\ renderer[1].padded_bytes_per_row = 1024

(***************************************************************************)
(* C16 (as claimed): the resize sequence (100,100), (100,100), (200,150)   *)
(* applied to a renderer triggers exactly one reallocation, at the third   *)
(* call.                                                                   *)
(***************************************************************************)
C16_OneReallocation ==
    ResizeSequenceDone =>
        /\ ReallocsFrom(2) = 1
        /\ ~calls[2].realloc /\ ~calls[3].realloc /\ calls[4].realloc

(***************************************************************************)
(* C16 (amended): in the resize sequence (100,100), (100,100), (200,150)   *)
(* the second call never reallocates and the third always does, so exactly *)
(* one reallocation happens after the first call; the first call           *)
(* reallocates too unless the renderer is already 100x100, which makes two *)
(* reallocations for the 1x1 renderer the controller creates.              *)
(***************************************************************************)
C16_ReallocationsOfSequence ==
    ResizeSequenceDone =>
        /\ ~calls[3].realloc
        /\ calls[4].realloc
        /\ ReallocsFrom(3) = 1
        /\ calls[2].realloc = (calls[1].args # <<100, 100>>)
        /\ ReallocsFrom(2) = (IF calls[1].args = <<100, 100>> THEN 1 ELSE 2)
        /\ renderer[1].width = 200 /\ renderer[1].height = 150

\* the sequence applied to the 1x1 renderer: two reallocations
C16_Witness ==
    /\ ResizeSequenceDone
    /\ calls[1].args = <<1, 1>>
    /\ ReallocsFrom(2) = 2

(***************************************************************************)
(* C17: resize with a zero width or a zero height is ignored: nothing is   *)
(* recreated, the renderer (width, height, stride, output texture,         *)
(* readback buffer) stays as it is, and no error is raised.                *)
(***************************************************************************)
C17_ResizeZeroIgnored ==
    [][ (ev'.op = "resize" /\ (ev'.host[1] = 0 \/ ev'.host[2] = 0))
        => /\ ~ev'.realloc
           /\ renderer' = renderer
           /\ camera' = camera
           /\ dead' = dead /\ ~dead' ]_vars

\* resize(0,100) on a 200x150 renderer
C17_Witness ==
    /\ ev.op = "resize" /\ ev.host = <<0, 100>>
    /\ ~ev.realloc
    /\ renderer[1].width = 200 /\ renderer[1].height = 150
    /\ renderer[1].output_texture = <<200, 150>>

(***************************************************************************)
(* Notions for f32 quotients                                               *)
(***************************************************************************)
\* q is n / d as an f32 can hold it: a finite value with at most 24
\* significant bits whose relative distance from n / d is at most 2^-23
\* (one rounding for a quotient, two for the reciprocal of a quotient)
IsF32Quotient(q, n, d) ==
    /\ q[2] > 0
    /\ Abs(q[1]) < 16777216
    /\ Abs(q[1] * d - n * q[2]) <= (n * q[2]) \div 8388608

(***************************************************************************)
(* C18 (as claimed): aspect_ratio > 0 in every state reachable from        *)
(* Camera::new by set_viewport_size calls with non-negative arguments.     *)
(***************************************************************************)
C18_AspectPositive ==
    camera.aspect_ratio[1] > 0 /\ camera.aspect_ratio[2] > 0

(***************************************************************************)
(* C19: set_viewport_size(width, height) makes aspect_ratio equal to       *)
(* width / height (as an f32 holds it) when height > 0 and leaves the      *)
(* camera as it is when height = 0; position and zoom are unchanged in     *)
(* both cases.                                                             *)
(***************************************************************************)
C19_SetViewportSize ==
    [][ ev'.op = "set_viewport_size"
        => /\ camera'.position = camera.position
           /\ camera'.zoom = camera.zoom
           /\ ev'.host[2] > 0 =>
                  IsF32Quotient(camera'.aspect_ratio, ev'.host[1], ev'.host[2])
           /\ ev'.host[2] = 0 => camera' = camera
           /\ renderer' = renderer ]_vars

\* set_viewport_size(1,2) followed by set_viewport_size(2,0): the aspect stays 1/2
C19_Witness ==
    /\ ev.op = "set_viewport_size" /\ ev.host = <<2, 0>>
    /\ camera.aspect_ratio = <<1, 2>>
    /\ calls[Len(calls) - 1].op = "set_viewport_size"
    /\ calls[Len(calls) - 1].args = <<1, 2>>

(***************************************************************************)
(* C20: for the current image of width w > 0 and height h > 0, with        *)
(* a = w / h, render computes image_scale = (1, 1/a) when a > 1 and (a, 1) *)
(* otherwise, in f32 arithmetic; both components are in (0, 1] and one of  *)
(* them is 1.                                                              *)
(***************************************************************************)
C20_ImageScale ==
    (ev.op = "render" /\ renderer # <<>>) =>
        LET w == renderer[1].image_dims[1]
            h == renderer[1].image_dims[2]
            sx == ev.out[1].scale[1]
            sy == ev.out[1].scale[2]
        IN /\ w > 0 /\ h > 0
           /\ w > h => (sx = <<1, 1>> /\ IsF32Quotient(sy, h, w))
           /\ w <= h => (sy = <<1, 1>> /\ IsF32Quotient(sx, w, h))
           /\ 0 < sx[1] /\ sx[1] <= sx[2]
           /\ 0 < sy[1] /\ sy[1] <= sy[2]
           /\ sx = <<1, 1>> \/ sy = <<1, 1>>

\* an 8x7 image was loaded and rendered with scale (1, 0.87499994)
C20_Witness ==
    /\ ev.op = "render"
    /\ renderer[1].image_dims = <<8, 7>>
    /\ ev.out[1].scale = <<<<1, 1>>, <<14680063, 16777216>>>>

(***************************************************************************)
(* Notions for fatal errors                                                *)
(***************************************************************************)
\* the last step was a tick whose readback map reported failure
MapFailed ==
    /\ ev.op = "tick" /\ ev.had
    /\ ev.steps # <<>> /\ ev.steps[Len(ev.steps)] = "panic"

(***************************************************************************)
(* C21: a tick whose readback map reports failure is fatal: it publishes   *)
(* no frame (the paintable keeps the frame it had), it maps once and does  *)
(* not map again, the process is dead after it, and once the process is    *)
(* dead no tick and no other step runs.                                    *)
(***************************************************************************)
C21_MapFailureFatal ==
    /\ [][ (ev'.op = "tick" /\ ev'.had /\ ev'.steps[Len(ev'.steps)] = "panic")
           => /\ dead'
              /\ ev'.publishes = 0
              /\ paintable' = paintable
              /\ ev'.maps = 1
              /\ \A k \in 1..Len(ev'.steps) :
                    ev'.steps[k] \notin {"set_paintable", "unmap"} ]_vars
    /\ [][ ~dead ]_vars
    /\ [](MapFailed => dead)

\* a tick published a frame, a later tick's map failed: the process is dead and
\* the paintable still holds the earlier frame
C21_Witness ==
    /\ MapFailed
    /\ dead
    /\ paintable # <<>>
    /\ ev.publishes = 0
    /\ ~renderer[1].output_buffer.mapped

\* the initialization task has run and GPU acquisition failed
InitFailed ==
    initTask = "finished" /\ renderer = <<>>

(***************************************************************************)
(* C22: when adapter or device acquisition fails the initialization task   *)
(* ends in a panic without filling the renderer slot, and there is no      *)
(* recovery: whether the panic ends the process or only the task, the      *)
(* initialization never runs again, the slot stays empty through every     *)
(* later tick, load and completion (the controller stays Uninitialized,    *)
(* never Ready or Displaying), and no frame is rendered or published       *)
(* before or after.                                                        *)
(***************************************************************************)
C22_AcquisitionFailureFatal ==
    /\ [][ (ev'.op = "init" /\ ev'.steps[Len(ev'.steps)] = "panic")
           => /\ renderer = <<>> /\ renderer' = <<>>
              /\ paintable' = <<>>
              /\ initTask' = "finished"
              /\ ev'.steps = <<"GpuContext::new", "panic">>
              /\ InitFailed' ]_vars
    /\ [](InitFailed => /\ Uninitialized(renderer)
                        /\ ~Ready(renderer) /\ ~Displaying(renderer)
                        /\ paintable = <<>>
                        /\ ev.renders = 0 /\ ev.publishes = 0 /\ ev.maps = 0
                        /\ ~ev.installed
                        /\ running.task = "idle")
    /\ [][ InitFailed => /\ InitFailed'
                         /\ ev'.op # "init"
                         /\ ev'.op # "tick_enter"
                         /\ camera' = camera ]_vars
    /\ [](renderer = <<>> => (paintable = <<>> /\ ev.renders = 0 /\ ev.publishes = 0))

\* acquisition failed and the process went on: a load was issued and its
\* completion and a tick ran on the empty slot, the tick last
C22_Witness ==
    /\ InitFailed
    /\ ~dead
    /\ Len(doneOrder) >= 1
    /\ ev.op = "tick" /\ ev.host = <<64, 3>>
    /\ paintable = <<>>

(***************************************************************************)
(* C23: for a camera at position (0,0) with zoom 1 and aspect_ratio 1,     *)
(* build_view_projection_matrix returns a matrix whose x/y part is the     *)
(* identity (unit scale, no shear, no translation): it maps the world      *)
(* point (0,0) to the screen origin and the world point (1,0) to the right *)
(* viewport edge x = 1, y = 0.                                             *)
(***************************************************************************)
C23_IdentityAtDefaultCamera ==
    (/\ ev.op = "build_view_projection_matrix"
     /\ camera.position = <<0, 0>> /\ camera.zoom = 1 /\ camera.aspect_ratio = One)
    => LET m == ev.out[1]
           origin == MatApply(m, <<RZero, RZero, RZero, One>>)
           edge == MatApply(m, <<One, RZero, RZero, One>>)
       IN /\ m[1][1] = One /\ m[1][2] = RZero /\ m[1][4] = RZero
          /\ m[2][1] = RZero /\ m[2][2] = One /\ m[2][4] = RZero
          /\ origin[1] = RZero /\ origin[2] = RZero /\ origin[4] = One
          /\ edge[1] = One /\ edge[2] = RZero /\ edge[4] = One

\* the matrix was built for the camera that Camera::new returns
C23_Witness ==
    /\ ev.op = "build_view_projection_matrix"
    /\ camera = CameraNew
    /\ ev.out[1][1][1] = One /\ ev.out[1][2][2] = One
    /\ ev.out[1][3] = <<RZero, RZero, <<0 - 1, 2>>, <<1, 2>>>>

(***************************************************************************)
(* Notions for the borrows of the renderer slot                            *)
(***************************************************************************)
\* the last step was a borrow_mut that found the slot already borrowed
BorrowConflict ==
    ev.steps = <<"borrow_mut", "panic">>

(***************************************************************************)
(* C24: in every interleaving of the initialization task, the ticks and    *)
(* the load completions, no borrow_mut of the renderer slot finds it       *)
(* already borrowed, so no step panics with a borrow error; while the tick *)
(* holds its borrow (from its first statement to its return, across the    *)
(* blocking readback wait) no initialization, completion, load_image or    *)
(* second tick runs, and the slot changes only in the tick itself.         *)
(***************************************************************************)
C24_NoBorrowConflict ==
    /\ [](~BorrowConflict)
    /\ [][ running.slot = "mut"
           => /\ ev'.op \in {"decode", "tick"}
              /\ ev'.op = "decode" => (renderer' = renderer /\ running' = running) ]_vars
    /\ [][ ev'.op \in {"init", "completion"}
           => (running.slot = "free" /\ running'.slot = "free") ]_vars
    /\ [](running.slot = "mut" <=> running.task = "tick")

\* a decode thread sent a decoded image while the tick callback was blocked with
\* the slot borrowed, so its completion task is ready to run
C24_Witness ==
    /\ running.task = "tick" /\ running.slot = "mut"
    /\ renderer # <<>>
    /\ ev.op = "decode"
    /\ loads[ev.id].st = "sent" /\ loads[ev.id].result[1].ok
    /\ ~dead

(***************************************************************************)
(* C25: whenever the renderer slot is filled, the camera's aspect_ratio is *)
(* renderer.width / renderer.height: it is 1 for the 1x1 renderer that the *)
(* initialization installs, and every tick (with or without a resize, with *)
(* a successful or a failed map) and every image upload keeps it.          *)
(***************************************************************************)
C25_CameraMatchesTarget ==
    renderer # <<>> =>
        /\ renderer[1].height > 0
        /\ IsF32Quotient(camera.aspect_ratio, renderer[1].width, renderer[1].height)
        /\ ev.op = "init" => (renderer[1].width = 1 /\ renderer[1].height = 1
                              /\ camera.aspect_ratio = One)

\* after a tick resized the target to 65x2 and an image was uploaded
C25_Witness ==
    /\ renderer # <<>>
    /\ renderer[1].width = 65 /\ renderer[1].height = 3
    /\ camera.aspect_ratio = <<11359573, 524288>>
    /\ ev.op = "completion" /\ ev.installed

(***************************************************************************)
(* C26: each renderer operation changes only its own part of the renderer: *)
(* render leaves width, height, padded_bytes_per_row, image_dims and the   *)
(* bind group unchanged; resize leaves image_dims and the bind group       *)
(* unchanged; load_image leaves width, height, padded_bytes_per_row, the   *)
(* output texture and the readback buffer unchanged.                       *)
(***************************************************************************)
C26_FrameEffects ==
    /\ [][ ev'.op = "render"
           => /\ renderer'[1].width = renderer[1].width
              /\ renderer'[1].height = renderer[1].height
              /\ renderer'[1].padded_bytes_per_row = renderer[1].padded_bytes_per_row
              /\ renderer'[1].image_dims = renderer[1].image_dims
              /\ renderer'[1].bind_group = renderer[1].bind_group ]_vars
    /\ [][ ev'.op = "resize"
           => /\ renderer'[1].image_dims = renderer[1].image_dims
              /\ renderer'[1].bind_group = renderer[1].bind_group ]_vars
    /\ [][ ev'.op = "load_image"
           => /\ renderer'[1].width = renderer[1].width
              /\ renderer'[1].height = renderer[1].height
              /\ renderer'[1].padded_bytes_per_row = renderer[1].padded_bytes_per_row
              /\ renderer'[1].output_texture = renderer[1].output_texture
              /\ renderer'[1].output_buffer = renderer[1].output_buffer ]_vars

\* load_image(4x2), a reallocating resize(200,150) and render, in this order: the
\* image survived the resize and the target survived the upload
C26_Witness ==
    /\ Len(calls) = 4
    /\ calls[2].op = "load_image" /\ calls[2].args = <<4, 2>>
    /\ calls[3] = [op |-> "resize", args |-> <<200, 150>>, realloc |-> TRUE]
    /\ calls[4].op = "render"
    /\ renderer[1].image_dims = <<4, 2>> /\ renderer[1].bind_group.src = "U"
    /\ renderer[1].width = 200 /\ renderer[1].height = 150
    /\ ev.out[1].dims = <<4, 2>> /\ ev.out[1].width = 200

C28_IndexInRange ==
    /\ [](app.files # <<>> =>
            /\ app.current_index >= 0
            /\ app.current_index < Len(app.files)
            /\ CurrentPath(app) # <<>>
            /\ \E k \in 1..Len(app.files) : CurrentPath(app) = <<app.files[k]>>)
    /\ [](ev.op \in {"next", "prev", "click"} /\ ev.had => ev.out = CurrentPath(app))
    /\ [][ (ev'.op \in {"next", "prev"} /\ app.files = <<>>)
           => /\ ev'.out = <<>>
              /\ app'.current_index = app.current_index
              /\ app'.files = <<>> ]_vars

\* a directory of three files was opened at its last file and the Right key's
\* next wrapped to the first one
C28_Witness ==
    /\ Len(app.files) = 3
    /\ ev.op = "next" /\ ev.prev = <<2>>
    /\ app.current_index = 0
    /\ ev.out = <<app.files[1]>>

(***************************************************************************)
(* C29: for a non-empty file list, next and prev are inverse to each other *)
(* and wrap around: next followed by prev, and prev followed by next,      *)
(* restore current_index; next at the last index goes to index 0 and prev  *)
(* at index 0 goes to the last index; files.len() next calls in a row      *)
(* return to the index they started from.                                  *)
(***************************************************************************)
C29_NextPrevInverse ==
    /\ [][ (ev.op = "next" /\ ev'.op = "prev" /\ app.files # <<>>)
           => app'.current_index = ev.prev[1] ]_vars
    /\ [][ (ev.op = "prev" /\ ev'.op = "next" /\ app.files # <<>>)
           => app'.current_index = ev.prev[1] ]_vars
    /\ [][ (ev'.op = "next" /\ app.files # <<>>)
           => /\ app.current_index = Len(app.files) - 1 => app'.current_index = 0
              /\ app.current_index < Len(app.files) - 1
                    => app'.current_index = app.current_index + 1
              /\ app'.files = app.files ]_vars
    /\ [][ (ev'.op = "prev" /\ app.files # <<>>)
           => /\ app.current_index = 0 => app'.current_index = Len(app.files) - 1
              /\ app.current_index > 0 => app'.current_index = app.current_index - 1
              /\ app'.files = app.files ]_vars
    /\ []((app.files # <<>> /\ app.nexts = Len(app.files))
            => app.current_index = app.start)

\* three files, opened at the middle one: three calls of next in a row came back
\* to it
C29_Witness ==
    /\ Len(app.files) = 3
    /\ app.nexts = 3
    /\ app.start = 1
    /\ app.current_index = 1
    /\ ev.op = "next" /\ ev.prev = <<0>>

====
